---- MODULE Spec2Model ----
(***************************************************************************)
(* Model of astrbot_plugin_spider: the site scheduler (scheduler.py), its  *)
(* notification fan-out, and the message deduplication store               *)
(* (message_dedup.py).                                                     *)
(*                                                                         *)
(* Python dicts are functions whose DOMAIN is the set of keys; Python      *)
(* lists are sequences.  Time is time.time() in whole seconds.             *)
(***************************************************************************)
EXTENDS Integers, Sequences, FiniteSets, TLC

(***************************************************************************)
(* Bounds of the model.                                                    *)
(***************************************************************************)
MaxWeeks == 1
MaxInFlight == 2
MaxMsgs == 2

(***************************************************************************)
(* Program constants.                                                      *)
(***************************************************************************)
\* message_dedup.py: 7 * 24 * 60 * 60, the retention window in seconds
SevenDays == 7 * 24 * 60 * 60
\* scheduler.py: get_config_value('notification_batch_size', 50)
DefaultBatchSize == 50

(***************************************************************************)
(* Finite universes the inputs are drawn from.                             *)
(***************************************************************************)
Sites == {"a", "b"}
Subscribers == {"u1", "u2"}
\* the stable order in which get_subscribers lists subscribers
SubscriberOrder == <<"u1", "u2">>
\* message texts; "" is the empty string a site may return
Texts == {"X", "Y"}
Deliveries == {"d1", "d2"}
\* the instants at which calls are made: the start, and one second before, at
\* and one second after each whole number of retention windows
Instants == {0} \cup {k * SevenDays + d : k \in 1..MaxWeeks, d \in {0 - 1, 0, 1}}
None == "None"
\* the time of an event that has not happened
Never == 0 - 1

VARIABLES
    \* ---- Scheduler (scheduler.py) ----
    site_configs,        \* dict site_name -> source of the registered definition
    display_name_to_site_name, \* dict display_name -> site_name
    scheduler_jobs,      \* dict site_name -> job id
    jobs,                \* ids of the jobs the APScheduler instance holds
    job_store,           \* dict job id -> the job: its trigger and its firings
    running,             \* self.scheduler.running
    context,             \* self.context is set
    batch_size,          \* configured notification_batch_size
    exec,                \* per job id: the execution of check_site_updates in flight
    \* ---- subscription_manager ----
    subscriptions,       \* subscriber -> set of site ids (may hold "all")
    subscriber_sessions, \* dict subscriber -> session context token
    \* ---- MessageDeduplication (message_dedup.py) ----
    sent_messages,       \* dict site -> dict message_hash -> timestamp
    data_file,           \* sent_messages.json: whether it exists and the dict it holds
    now,                 \* time.time()
    dlv,                 \* deliveries that check and then record a message
    \* ---- cache.py ----
    cache_files,         \* dict site_name -> the JSON document of <site>_subscription.json
    \* ---- history ----
    cache_saved,         \* site_name -> data and return value of the latest save_cache
    last_record,         \* <<site, message>> -> time of the latest record_message
    notified,            \* <<site, message>> pairs an execution has sent
    last_call            \* the call made by the latest step and its outcome

schedVars == <<site_configs, display_name_to_site_name, scheduler_jobs, jobs, job_store,
               running, context, batch_size, exec>>
subVars == <<subscriptions, subscriber_sessions>>
dedupVars == <<sent_messages, data_file, now, dlv, last_record>>
cacheVars == <<cache_files, cache_saved>>
vars == <<schedVars, subVars, dedupVars, cacheVars, notified, last_call>>

(***************************************************************************)
(* Dict helpers.                                                           *)
(***************************************************************************)
EmptyDict == [k \in {} |-> None]

DictSet(d, k, v) == [x \in (DOMAIN d) \cup {k} |-> IF x = k THEN v ELSE d[x]]

DictDel(d, k) == [x \in (DOMAIN d) \ {k} |-> d[x]]

(***************************************************************************)
(* MessageDeduplication                                                    *)
(***************************************************************************)
\* hashlib.md5(message).hexdigest(): a digest that differs for different texts
_hash_message(message) == <<"md5", message>>

\* the dict comprehension / loop filter `if timestamp > seven_days_ago`
still_valid(site_data, current_time) ==
    LET seven_days_ago == current_time - SevenDays
    IN  [msg_hash \in {h \in DOMAIN site_data : site_data[h] > seven_days_ago}
            |-> site_data[msg_hash]]

\* return value of is_duplicate(message, site)
is_dup(sm, message, site, current_time) ==
    IF site \in DOMAIN sm
    THEN _hash_message(message) \in DOMAIN still_valid(sm[site], current_time)
    ELSE FALSE

\* self.sent_messages after is_duplicate(message, site)
is_duplicate_state(sm, site, current_time) ==
    IF site \in DOMAIN sm
    THEN DictSet(sm, site, still_valid(sm[site], current_time))
    ELSE sm

\* (the variant keyed by message hash alone: the record counts for every site)
record_message_global(sm, message, site, current_time) ==
    [s \in (DOMAIN sm) \cup Sites |->
        DictSet(still_valid(IF s \in DOMAIN sm THEN sm[s] ELSE EmptyDict, current_time),
                _hash_message(message), current_time)]

\* self.sent_messages after record_message(message, site)
record_message_state(sm, message, site, current_time) ==
    LET site_data == IF site \in DOMAIN sm THEN sm[site] ELSE EmptyDict
    IN  DictSet(sm, site,
                DictSet(still_valid(site_data, current_time),
                        _hash_message(message), current_time))

\* save_sent_messages: the file holds the dict unless the write fails
save_sent_messages(sm, file, write_ok) ==
    IF write_ok THEN [exists |-> TRUE, doc |-> sm] ELSE file

\* return value of record_message: it ends with the call of save_sent_messages,
\* which swallows the exception of a failed write, and returns nothing
record_message_ret(write_ok) == None

\* load_sent_messages: self.sent_messages and the file afterwards.  read_ok is
\* false when open or json.load raises
load_sent_messages(file, current_time, read_ok, write_ok) ==
    IF ~file.exists \/ ~read_ok
    THEN [sent_messages |-> EmptyDict, file |-> file]
    ELSE LET data == file.doc
             cleaned == [site \in {x \in DOMAIN data :
                                      still_valid(data[x], current_time) # EmptyDict}
                            |-> still_valid(data[site], current_time)]
         IN  [sent_messages |-> cleaned,
              file |-> save_sent_messages(cleaned, file, write_ok)]

IdleDelivery == [pc |-> "idle", site |-> None, message |-> None, dup |-> FALSE, at |-> 0]

DedupInit ==
    /\ sent_messages = EmptyDict
    /\ data_file = [exists |-> FALSE, doc |-> EmptyDict]
    /\ now = 0
    /\ dlv = [d \in Deliveries |-> IdleDelivery]
    /\ last_record = [p \in Sites \X Texts |-> Never]

\* is_duplicate(message, site)
IsDuplicate(message, site) ==
    /\ sent_messages' = is_duplicate_state(sent_messages, site, now)
    /\ last_call' = [op |-> "is_duplicate", site |-> site, message |-> message,
                     ret |-> is_dup(sent_messages, message, site, now)]
    /\ UNCHANGED <<cacheVars, data_file, now, dlv, last_record, notified, schedVars, subVars>>

\* record_message(message, site), the write of the file included
RecordMessage(message, site, write_ok) ==
    /\ sent_messages' = record_message_state(sent_messages, message, site, now)
    /\ data_file' = save_sent_messages(sent_messages', data_file, write_ok)
    /\ last_record' = [last_record EXCEPT ![<<site, message>>] = now]
    /\ last_call' = [op |-> "record_message", site |-> site, message |-> message,
                     ret |-> record_message_ret(write_ok), written |-> write_ok]
    /\ UNCHANGED <<cacheVars, now, dlv, notified, schedVars, subVars>>

\* the process starts again: MessageDeduplication() loads the file
LoadSentMessages(read_ok, write_ok) ==
    LET r == load_sent_messages(data_file, now, read_ok, write_ok)
    IN  /\ sent_messages' = r.sent_messages
        /\ data_file' = r.file
        /\ last_call' = [op |-> "load_sent_messages", read_ok |-> read_ok,
                         loaded |-> data_file]
        /\ UNCHANGED <<cacheVars, now, dlv, last_record, notified, schedVars, subVars>>

\* the wall clock advances
Tick(t) ==
    /\ t > now
    /\ now' = t
    /\ last_call' = [op |-> "tick", site |-> None, message |-> None, ret |-> FALSE]
    /\ UNCHANGED <<cacheVars, sent_messages, data_file, dlv, last_record, notified,
                   schedVars, subVars>>

\* a delivery asks is_duplicate(message, site) before it sends
DeliverCheck(d, message, site) ==
    /\ dlv[d].pc = "idle"
    /\ sent_messages' = is_duplicate_state(sent_messages, site, now)
    /\ dlv' = [dlv EXCEPT ![d] = [pc |-> "checked", site |-> site, message |-> message,
                                  dup |-> is_dup(sent_messages, message, site, now),
                                  at |-> now]]
    /\ last_call' = [op |-> "deliver_check", site |-> site, message |-> message,
                     ret |-> is_dup(sent_messages, message, site, now)]
    /\ UNCHANGED <<cacheVars, data_file, now, last_record, notified, schedVars, subVars>>

\* the delivery has sent and calls record_message (nothing to do for a duplicate)
DeliverRecord(d, write_ok) ==
    /\ dlv[d].pc = "checked"
    /\ IF dlv[d].dup
       THEN UNCHANGED <<sent_messages, data_file, last_record>>
       ELSE /\ sent_messages' =
                 record_message_state(sent_messages, dlv[d].message, dlv[d].site, now)
            /\ data_file' = save_sent_messages(sent_messages', data_file, write_ok)
            /\ last_record' = [last_record EXCEPT ![<<dlv[d].site, dlv[d].message>>] = now]
    /\ dlv' = [dlv EXCEPT ![d] = IdleDelivery]
    /\ last_call' = [op |-> "deliver_record", site |-> dlv[d].site,
                     message |-> dlv[d].message, ret |-> dlv[d].dup]
    /\ UNCHANGED <<cacheVars, now, notified, schedVars, subVars>>

(***************************************************************************)
(* cache.py.  A Python value is [t, s, items]: t is its type, s the text of *)
(* a str or the decimal text of an int, items the elements of a list or    *)
(* tuple, or the <<key, value>> pairs of a dict in insertion order.  A JSON *)
(* document is [t, s, items] likewise, an object holding <<name, document>> *)
(* members in the order written.                                           *)
(***************************************************************************)
PyNone == [t |-> "none", s |-> "", items |-> <<>>]
PyStr(s) == [t |-> "str", s |-> s, items |-> <<>>]
PyInt(s) == [t |-> "int", s |-> s, items |-> <<>>]
PyList(items) == [t |-> "list", s |-> "", items |-> items]
PyTuple(items) == [t |-> "tuple", s |-> "", items |-> items]
PyDict(items) == [t |-> "dict", s |-> "", items |-> items]
\* a value json.dump has no encoding for (a set, a datetime, ...)
PySet == [t |-> "set", s |-> "", items |-> <<>>]

\* what the file holds after open(cache_file, "w") when json.dump did not finish
BrokenDocument == [t |-> "broken", s |-> "", items |-> <<>>]

RECURSIVE serializable(_)
\* json.dump(data, f) finishes without TypeError
serializable(data) ==
    CASE data.t \in {"none", "str", "int"} -> TRUE
      [] data.t \in {"list", "tuple"} ->
            \A i \in 1..Len(data.items) : serializable(data.items[i])
      [] data.t = "dict" ->
            \A i \in 1..Len(data.items) :
                /\ data.items[i][1].t \in {"none", "str", "int"}
                /\ serializable(data.items[i][2])
      [] OTHER -> FALSE

\* the member name json.dump writes for a dict key: the str itself, str(key) of an
\* int, "null" for None
KeyName(key) == IF key.t = "none" THEN "null" ELSE key.s

RECURSIVE json_dump(_)
\* json.dump(data, f, ensure_ascii=False, indent=2): the document written
json_dump(data) ==
    CASE data.t = "none" -> [t |-> "null", s |-> "", items |-> <<>>]
      [] data.t = "str" -> [t |-> "string", s |-> data.s, items |-> <<>>]
      [] data.t = "int" -> [t |-> "number", s |-> data.s, items |-> <<>>]
      [] data.t \in {"list", "tuple"} ->
            [t |-> "array", s |-> "",
             items |-> [i \in 1..Len(data.items) |-> json_dump(data.items[i])]]
      [] data.t = "dict" ->
            [t |-> "object", s |-> "",
             items |-> [i \in 1..Len(data.items) |->
                           <<KeyName(data.items[i][1]), json_dump(data.items[i][2])>>]]

RECURSIVE json_load(_)
\* json.load(f): an object becomes a dict in which a repeated name keeps its first
\* position and its last value
json_load(doc) ==
    CASE doc.t = "null" -> PyNone
      [] doc.t = "string" -> PyStr(doc.s)
      [] doc.t = "number" -> PyInt(doc.s)
      [] doc.t = "array" ->
            PyList([i \in 1..Len(doc.items) |-> json_load(doc.items[i])])
      [] doc.t = "object" ->
            LET n == Len(doc.items)
                First(i) == \A k \in 1..(i - 1) : doc.items[k][1] # doc.items[i][1]
                LastOf(i) == CHOOSE k \in i..n :
                                /\ doc.items[k][1] = doc.items[i][1]
                                /\ \A m \in (k + 1)..n : doc.items[m][1] # doc.items[i][1]
                Member(i) == <<PyStr(doc.items[i][1]), json_load(doc.items[LastOf(i)][2])>>
                F[i \in 0..n] ==
                    IF i = 0 THEN <<>>
                    ELSE IF First(i) THEN Append(F[i - 1], Member(i)) ELSE F[i - 1]
            IN  PyDict(F[n])

RECURSIVE StructurallyEqual(_, _)
\* the same structure: equal scalars of the same type, sequences (list or tuple)
\* with pairwise equal elements, dicts with the same keys (an int key and a str key
\* are different keys) and equal values under each key, regardless of insertion
\* order
StructurallyEqual(x, y) ==
    LET Kind(v) == IF v.t \in {"list", "tuple"} THEN "sequence" ELSE v.t
    IN  /\ Kind(x) = Kind(y)
        /\ CASE Kind(x) = "sequence" ->
                    /\ Len(x.items) = Len(y.items)
                    /\ \A i \in 1..Len(x.items) : StructurallyEqual(x.items[i], y.items[i])
             [] Kind(x) = "dict" ->
                    LET Key(d, i) == <<d.items[i][1].t, d.items[i][1].s>>
                        Keys(d) == {Key(d, i) : i \in 1..Len(d.items)}
                        At(d, k) == d.items[CHOOSE i \in 1..Len(d.items) : Key(d, i) = k][2]
                    IN  /\ Keys(x) = Keys(y)
                        /\ \A k \in Keys(x) : StructurallyEqual(At(x, k), At(y, k))
             [] OTHER -> x.s = y.s

\* return value of load_cache(site_name); "absent" stands for Python's None
Absent == [t |-> "absent", s |-> "", items |-> <<>>]

load_cache(files, site_name, read_ok) ==
    IF site_name \in DOMAIN files /\ read_ok /\ files[site_name].t # "broken"
    THEN json_load(files[site_name])
    ELSE Absent

\* save_cache(site_name, data): the files afterwards and the return value.  io is
\* "ok", "open_fails" (mkdir or open raises) or "write_fails" (a write raises
\* after open(..., "w") has truncated the file)
save_cache(files, site_name, data, io) ==
    IF io = "open_fails" THEN [files |-> files, ret |-> FALSE]
    ELSE IF io = "write_fails" \/ ~serializable(data)
    THEN [files |-> DictSet(files, site_name, BrokenDocument), ret |-> FALSE]
    ELSE [files |-> DictSet(files, site_name, json_dump(data)), ret |-> TRUE]

CacheInit ==
    /\ cache_files = EmptyDict
    /\ cache_saved = EmptyDict

\* save_cache(site_name, data)
SaveCache(site_name, data, io) ==
    LET r == save_cache(cache_files, site_name, data, io)
    IN  /\ cache_files' = r.files
        /\ cache_saved' = DictSet(cache_saved, site_name, [data |-> data, ret |-> r.ret])
        /\ last_call' = [op |-> "save_cache", site |-> site_name, io |-> io, ret |-> r.ret]
        /\ UNCHANGED <<schedVars, subVars, dedupVars, notified>>

\* load_cache(site_name)
LoadCache(site_name, read_ok) ==
    /\ last_call' = [op |-> "load_cache", site |-> site_name, read_ok |-> read_ok,
                     ret |-> load_cache(cache_files, site_name, read_ok)]
    /\ UNCHANGED <<cacheVars, schedVars, subVars, dedupVars, notified>>

(***************************************************************************)
(* subscription_manager                                                    *)
(***************************************************************************)
\* the entries a subscriber may hold: a site id or the wildcard
SubTargets == Sites \cup {"all"}

\* get_subscribers(site_name): subscribers holding the site or "all", each once,
\* in a stable order
get_subscribers(subs, site_name) ==
    LET Wants(u) == site_name \in subs[u] \/ "all" \in subs[u]
    IN  SelectSeq(SubscriberOrder, Wants)

\* subscribe(target_id, site, is_group, session_context)
Subscribe(u, x, session_context) ==
    /\ subscriptions' = [subscriptions EXCEPT ![u] = @ \cup {x}]
    /\ subscriber_sessions' = DictSet(subscriber_sessions, u, session_context)
    /\ last_call' = [op |-> "subscribe", who |-> u, site |-> x, ret |-> TRUE]
    /\ UNCHANGED <<cacheVars, schedVars, dedupVars, notified>>

\* unsubscribe(target_id, site, is_group)
Unsubscribe(u, x) ==
    /\ subscriptions' = [subscriptions EXCEPT ![u] = @ \ {x}]
    /\ last_call' = [op |-> "unsubscribe", who |-> u, site |-> x,
                     ret |-> (x \in subscriptions[u])]
    /\ UNCHANGED <<cacheVars, subscriber_sessions, schedVars, dedupVars, notified>>

(***************************************************************************)
(* Schedule strings.  "interval:<arg>" is [form |-> "interval"] with the   *)
(* text after the colon; anything else is split on whitespace into fields, *)
(* a field being "*" (star) or a number.                                   *)
(***************************************************************************)
Interval(n) == [form |-> "interval", isint |-> TRUE, n |-> n, fields |-> <<>>]
\* "interval:abc"
IntervalAbc == [form |-> "interval", isint |-> FALSE, n |-> 0, fields |-> <<>>]
Star == [star |-> TRUE, v |-> 0]
Num(v) == [star |-> FALSE, v |-> v]
Cron(fields) == [form |-> "cron", isint |-> FALSE, n |-> 0, fields |-> fields]
\* site.schedule() raises
ScheduleRaises == [form |-> "raise", isint |-> FALSE, n |-> 0, fields |-> <<>>]

\* "interval:10"
IntervalTen == Interval(10)
\* "* * * * *"
CronEveryMinute == Cron(<<Star, Star, Star, Star, Star>>)
\* "0 8 * * 1"
CronMonday == Cron(<<Num(0), Num(8), Star, Star, Num(1)>>)
\* "* * * *"
CronFourFields == Cron(<<Star, Star, Star, Star>>)
\* "61 * * * *"
CronBadMinute == Cron(<<Num(61), Star, Star, Star, Star>>)

\* "0 * * * *"
CronHourly == Cron(<<Num(0), Star, Star, Star, Star>>)
\* "interval:0": IntervalTrigger(seconds=0) does not raise
IntervalZero == Interval(0)

Schedules == {IntervalTen, IntervalAbc, CronEveryMinute,
              CronFourFields, CronBadMinute, ScheduleRaises}

\* the value ranges CronTrigger accepts for minute, hour, day, month, day_of_week
CronMin == <<0, 0, 1, 1, 0>>
CronMax == <<59, 23, 31, 12, 6>>

\* CronTrigger(minute=, hour=, day=, month=, day_of_week=) raises for a field out of range
CronTriggerOk(fields) ==
    \A i \in 1..5 : fields[i].star \/ (CronMin[i] <= fields[i].v /\ fields[i].v <= CronMax[i])

\* f"site_{site_name}_interval" / f"site_{site_name}_cron"
JobId(site_name, form) == <<"site", site_name, form>>
JobIds == {JobId(s, f) : s \in Sites, f \in {"interval", "cron"}}
JobSite(jid) == jid[2]

(***************************************************************************)
(* Triggers (APScheduler 3.x).  Times are seconds since 1970-01-01 00:00,   *)
(* a Thursday; the scheduler's timezone is taken to be UTC and the model    *)
(* stays within January 1970.                                              *)
(***************************************************************************)
Minute == 60
Hour == 60 * Minute
Day == 24 * Hour
\* the days of January 1970
DaysOfHorizon == 31

\* IntervalTrigger(seconds=n) created at `current_time`: no start_date is passed,
\* so the first fire time is one interval after the creation; an interval of
\* length 0 is replaced by one second
IntervalTrigger(seconds, current_time) ==
    LET interval == IF seconds = 0 THEN 1 ELSE seconds
    IN  [kind |-> "interval", interval |-> interval,
         start_date |-> current_time + interval, fields |-> <<>>]

\* CronTrigger(minute=, hour=, day=, month=, day_of_week=): second defaults to 0,
\* year and week to "*"
CronTrigger(fields) ==
    [kind |-> "cron", interval |-> 0, start_date |-> 0, fields |-> fields]

\* the trigger start_site_scheduling builds for a schedule it accepts
MakeTrigger(sch, current_time) ==
    IF sch.form = "interval"
    THEN IntervalTrigger(sch.n, current_time)
    ELSE CronTrigger(sch.fields)

\* the job add_job creates at `current_time`: it has not fired yet
Job(trigger, current_time) ==
    [trigger |-> trigger, added_at |-> current_time, previous_fire_time |-> Never]

\* a field expression, "*" or a number, accepts a value
FieldMatches(field, v) == field.star \/ field.v = v

\* datetime.weekday() of a day of the horizon: Monday is 0 (1 January 1970 was a
\* Thursday)
Weekday(d) == (3 + d) % 7

SetMin(S) == CHOOSE x \in S : \A y \in S : x <= y
SetMax(S) == CHOOSE x \in S : \A y \in S : x >= y

\* the times of a day at which the minute and hour fields match, second 0
TimesOfDay(fields) ==
    {h * Hour + m * Minute :
        h \in {x \in 0..23 : FieldMatches(fields[2], x)},
        m \in {x \in 0..59 : FieldMatches(fields[1], x)}}

\* the first time at or after `start` on a day DayOk accepts at which minute and
\* hour match, or Never when the horizon holds none
NextBoundary(fields, DayOk(_), start) ==
    LET d0 == start \div Day
        Today == IF DayOk(d0)
                 THEN {d0 * Day + x : x \in {y \in TimesOfDay(fields) : d0 * Day + y >= start}}
                 ELSE {}
        Later == {d \in (d0 + 1)..(DaysOfHorizon - 1) : DayOk(d)}
    IN  IF Today # {} THEN SetMin(Today)
        ELSE IF Later # {} /\ TimesOfDay(fields) # {}
        THEN SetMin(Later) * Day + SetMin(TimesOfDay(fields))
        ELSE Never

\* the last such time at or before `end`, or Never
PreviousBoundary(fields, DayOk(_), end) ==
    LET d0 == end \div Day
        Today == IF DayOk(d0)
                 THEN {d0 * Day + x : x \in {y \in TimesOfDay(fields) : d0 * Day + y <= end}}
                 ELSE {}
        Earlier == {d \in 0..(d0 - 1) : DayOk(d)}
    IN  IF Today # {} THEN SetMax(Today)
        ELSE IF Earlier # {} /\ TimesOfDay(fields) # {}
        THEN SetMax(Earlier) * Day + SetMax(TimesOfDay(fields))
        ELSE Never

\* CronTrigger: the day, month and day_of_week fields all accept the day
CronTriggerDay(fields, d) ==
    /\ FieldMatches(fields[3], 1 + d)
    /\ FieldMatches(fields[4], 1)
    /\ FieldMatches(fields[5], Weekday(d))

\* CronTrigger.get_next_fire_time: the first fire time at or after `start`
NextCron(fields, start) ==
    NextBoundary(fields, LAMBDA d : CronTriggerDay(fields, d), start)

\* trigger.get_next_fire_time(previous_fire_time, now)
get_next_fire_time(trigger, previous_fire_time, current_time) ==
    IF trigger.kind = "interval"
    THEN IF previous_fire_time # Never
         THEN previous_fire_time + trigger.interval
         ELSE IF trigger.start_date > current_time
         THEN trigger.start_date
         ELSE LET timediff == current_time - trigger.start_date
                  num == (timediff + trigger.interval - 1) \div trigger.interval
              IN  trigger.start_date + num * trigger.interval
    ELSE IF previous_fire_time # Never
         THEN NextCron(trigger.fields, previous_fire_time + 1)
         ELSE NextCron(trigger.fields, current_time)

\* job.next_run_time: set by add_job, and again after each firing
next_run_time(job) ==
    get_next_fire_time(job.trigger, job.previous_fire_time, job.added_at)

\* job._get_run_times(now)[-1]: the latest fire time that is due (runs that were
\* due earlier are coalesced into it)
latest_run_time(job, current_time) ==
    IF job.trigger.kind = "interval"
    THEN LET first == next_run_time(job)
         IN  first + ((current_time - first) \div job.trigger.interval) * job.trigger.interval
    ELSE PreviousBoundary(job.trigger.fields,
                          LAMBDA d : CronTriggerDay(job.trigger.fields, d), current_time)

\* misfire_grace_time of a job added without one: a run more than one second late
\* is not made
MisfireGraceTime == 1

(***************************************************************************)
(* Scheduler: registration                                                 *)
(***************************************************************************)
\* the fields registration works on
SchedState == [site_configs |-> site_configs,
               display_name_to_site_name |-> display_name_to_site_name,
               scheduler_jobs |-> scheduler_jobs, jobs |-> jobs,
               job_store |-> job_store, now |-> now]

SetSchedState(st) ==
    /\ site_configs' = st.site_configs
    /\ display_name_to_site_name' = st.display_name_to_site_name
    /\ scheduler_jobs' = st.scheduler_jobs
    /\ jobs' = st.jobs
    \* the job store holds a job for as long as the scheduler holds its id
    /\ job_store' = [j \in (DOMAIN st.job_store) \cap st.jobs |-> st.job_store[j]]

\* scheduler.add_job(..., id=jid) raises ConflictingIdError for an id the
\* running scheduler already holds
AddJobOk(js, jid, is_running) == ~(is_running /\ jid \in js)

\* "Remove any existing job for this site": scheduler.remove_job(job_id) for the
\* id recorded in scheduler_jobs (the caller has checked that the job exists)
RemoveExistingKeepsJob(st, site_name) == st

RemoveExisting(st, site_name) ==
    IF site_name \in DOMAIN st.scheduler_jobs
    THEN [st EXCEPT !.jobs = @ \ {st.scheduler_jobs[site_name]}]
    ELSE st

\* start_site_scheduling(site_name) when site.schedule() returns sch:
\* the registration state it leaves, how it ended and the job ids it removed
start_site_scheduling(st, is_running, site_name, sch) ==
    IF site_name \notin DOMAIN st.site_configs
    THEN [st |-> st, outcome |-> "unregistered", replaced |-> {}]
    ELSE IF sch.form = "raise"
    THEN [st |-> st, outcome |-> "error", replaced |-> {}]
    ELSE IF site_name \in DOMAIN st.scheduler_jobs
            /\ st.scheduler_jobs[site_name] \notin st.jobs
    THEN \* remove_job raises JobLookupError, caught by the outer handler
         [st |-> st, outcome |-> "error", replaced |-> {}]
    ELSE
      LET removed == RemoveExisting(st, site_name)
          replaced == IF site_name \in DOMAIN st.scheduler_jobs
                      THEN {st.scheduler_jobs[site_name]}
                      ELSE {}
          form == sch.form
          jid == JobId(site_name, form)
          added == [removed EXCEPT
                      !.jobs = @ \cup {jid},
                      !.job_store = DictSet(@, jid, Job(MakeTrigger(sch, removed.now),
                                                       removed.now)),
                      !.scheduler_jobs = DictSet(@, site_name, jid)]
      IN  IF form = "interval" /\ ~sch.isint
          THEN [st |-> removed, outcome |-> "bad_interval", replaced |-> replaced]
          ELSE IF form = "cron" /\ Len(sch.fields) # 5
          THEN [st |-> removed, outcome |-> "bad_cron", replaced |-> replaced]
          ELSE IF form = "cron" /\ ~CronTriggerOk(sch.fields)
          THEN [st |-> removed, outcome |-> "bad_cron", replaced |-> replaced]
          ELSE IF ~AddJobOk(removed.jobs, jid, is_running)
          THEN [st |-> removed, outcome |-> "error", replaced |-> replaced]
          ELSE [st |-> added, outcome |-> "scheduled", replaced |-> replaced]

\* required_attrs of _load_site_module
required_attrs == {"name", "check_updates", "description", "schedule", "display_name"}

\* the attributes of a `site` object are missing, a plain value or callable.
\* A duck-typed object that has every required attribute as a callable:
DuckSite == [attr \in required_attrs |-> IF attr = "name" THEN "value" ELSE "callable"]

\* the literal U+5168 U+90E8 that main.py uses for "all sites"
AllSitesName == "quanbu"

\* what site_obj.display_name() returns: by default a name of the site's own
OwnDisplayName == [s \in Sites |-> IF s = "a" THEN "A" ELSE "B"]
DisplayName(site_name, mod) ==
    IF mod.display_name = "own" THEN OwnDisplayName[site_name] ELSE mod.display_name

\* a site module on disk: whether importing it yields a `site` object, the
\* attributes of that object, and what its schedule() and display_name() return
ModuleWith(loads, site_obj, sch, display_name) ==
    [loads |-> loads, site |-> site_obj, schedule |-> sch, display_name |-> display_name]

Module(loads, sch) == ModuleWith(loads, DuckSite, sch, "own")

\* SiteConfig.__init__: the keyword parameters it has, and those without a default
SiteConfigParams == {"name", "fetch_func", "compare_func", "format_func",
                     "description_func", "schedule_func", "display_name_func",
                     "version", "dependencies", "author"}
SiteConfigRequired == {"name", "fetch_func", "compare_func", "format_func",
                       "description_func", "schedule_func"}

\* SiteConfig(**kwargs), every argument a valid value: Python raises TypeError for
\* an unexpected keyword and for a missing required argument; otherwise the
\* object has the attributes __init__ assigns
SiteConfig(kwargs) ==
    IF ~(kwargs \subseteq SiteConfigParams) \/ ~(SiteConfigRequired \subseteq kwargs)
    THEN [raises |-> TRUE, attrs |-> {}]
    ELSE [raises |-> FALSE,
          attrs |-> {"name", "fetch", "compare", "format", "description", "schedule",
                     "display_name", "version", "dependencies", "author"}]

\* the required attributes as hasattr() sees them on an object with these attributes
SiteObject(attrs) ==
    [attr \in required_attrs |->
        IF attr \notin attrs THEN "missing"
        ELSE IF attr = "name" THEN "value" ELSE "callable"]

\* a module whose main.py ends with `site = SiteConfig(**kwargs)`: the import
\* raises when the constructor does
SiteConfigModule(kwargs, sch) ==
    LET c == SiteConfig(kwargs)
    IN  ModuleWith(~c.raises, SiteObject(c.attrs), sch, "own")

\* the keywords of sites/template/main.py and sites/example/main.py
TemplateKwargs == {"name", "check_updates_func", "description_func", "schedule_func",
                   "display_name_func", "version", "author", "dependencies"}
ExampleKwargs == {"name", "check_updates_func", "description_func", "schedule_func",
                  "display_name_func"}

\* _load_site_module(site_name, base_path=...) for the module found in the directory
_load_site_module(st, is_running, site_name, source, mod) ==
    IF ~mod.loads
    THEN \* the import raised, or the module has no `site`
         [st |-> st, ok |-> FALSE]
    ELSE IF \E attr \in required_attrs : mod.site[attr] = "missing"
    THEN [st |-> st, ok |-> FALSE]
    ELSE LET registered == [st EXCEPT !.site_configs = DictSet(@, site_name, source)]
             named == [registered EXCEPT !.display_name_to_site_name =
                           DictSet(@, DisplayName(site_name, mod), site_name)]
             \* calling an attribute that is not callable raises TypeError
             sch == IF mod.site["schedule"] = "callable" THEN mod.schedule
                    ELSE ScheduleRaises
         IN  IF mod.site["display_name"] # "callable"
             THEN \* site_obj.display_name() raises after site_configs was set
                  [st |-> registered, ok |-> FALSE]
             ELSE [st |-> start_site_scheduling(named, is_running, site_name, sch).st,
                   ok |-> TRUE]

\* load_site_modules(), first loop: every site directory of the plugin directory
\* (directory names are unique, so the "already loaded" test never skips one)
RECURSIVE LoadPluginDir(_, _, _, _, _)
LoadPluginDir(st, is_running, plugin_dir, todo, loaded) ==
    IF todo = {}
    THEN [st |-> st, loaded |-> loaded]
    ELSE
      LET site_name == CHOOSE x \in todo : TRUE
          r == _load_site_module(st, is_running, site_name, "plugin", plugin_dir[site_name])
      IN  LoadPluginDir(r.st, is_running, plugin_dir, todo \ {site_name},
                        IF r.ok THEN loaded \cup {site_name} ELSE loaded)

\* load_site_modules(), second loop: every site directory of the custom directory;
\* a site the first loop loaded is deleted from site_configs before it is loaded again
RECURSIVE LoadCustomDir(_, _, _, _, _)
LoadCustomDir(st, is_running, custom_dir, todo, loaded) ==
    IF todo = {}
    THEN [st |-> st, loaded |-> loaded]
    ELSE
      LET site_name == CHOOSE x \in todo : TRUE
          dropped == IF site_name \in loaded /\ site_name \in DOMAIN st.site_configs
                     THEN [st EXCEPT !.site_configs = DictDel(@, site_name)]
                     ELSE st
          r == _load_site_module(dropped, is_running, site_name, "custom",
                                 custom_dir[site_name])
      IN  LoadCustomDir(r.st, is_running, custom_dir, todo \ {site_name},
                        IF r.ok THEN loaded \cup {site_name} ELSE loaded)

\* load_site_modules(): plugin_dir and custom_dir map the site directories present
\* to their modules; the result is the registration state and the loaded sites
load_site_modules(st, is_running, plugin_dir, custom_dir) ==
    LET p == LoadPluginDir(st, is_running, plugin_dir, DOMAIN plugin_dir, {})
    IN  LoadCustomDir(p.st, is_running, custom_dir, DOMAIN custom_dir, p.loaded)

(***************************************************************************)
(* Scheduler: check_site_updates and _send_notifications                   *)
(***************************************************************************)
Min(x, y) == IF x <= y THEN x ELSE y

\* list(range(0, n, step)) for step # 0
Range(n, step) ==
    IF step > 0
    THEN [k \in 1..((n + step - 1) \div step) |-> (k - 1) * step]
    ELSE <<>>

\* seq[i:j] for 0 <= i <= j
Slice(seq, i, j) == SubSeq(seq, i + 1, Min(j, Len(seq)))

RECURSIVE Flatten(_)
Flatten(seqs) == IF seqs = <<>> THEN <<>> ELSE Head(seqs) \o Flatten(Tail(seqs))

\* _send_notifications(subscribers, message): the subscribers in the order the
\* batch loops reach them.  Without a context the method returns at once;
\* range() raises ValueError for a batch size of 0, which the outer except catches.
SendOrder(subscribers, size, has_context) ==
    IF ~has_context \/ size = 0
    THEN <<>>
    ELSE LET starts == Range(Len(subscribers), size)
         IN  Flatten([k \in 1..Len(starts) |->
                         Slice(subscribers, starts[k], starts[k] + size)])

\* (the loops nested the other way round: subscriber by subscriber)
PlanBySubscriber(messages, mi, subscribers, size, has_context) ==
    LET order == SendOrder(subscribers, size, has_context)
        Wanted(p) == messages[p.mi] # ""
    IN  Flatten([k \in 1..Len(order) |->
                    SelectSeq([i \in 1..(Len(messages) + 1 - mi) |->
                                  [mi |-> mi + i - 1, sub |-> order[k]]],
                              Wanted)])

\* (the variant in which an empty message ends the loop instead of being skipped)
RECURSIVE PlanStopsAtEmpty(_, _, _, _, _)
PlanStopsAtEmpty(messages, mi, subscribers, size, has_context) ==
    IF mi > Len(messages) \/ messages[mi] = ""
    THEN <<>>
    ELSE LET order == SendOrder(subscribers, size, has_context)
         IN  [k \in 1..Len(order) |-> [mi |-> mi, sub |-> order[k]]]
                 \o PlanStopsAtEmpty(messages, mi + 1, subscribers, size, has_context)

\* the loop `for message in messages` of check_site_updates from message index mi on:
\* every (message, subscriber) the nested loops reach, in order; empty messages are skipped
RECURSIVE Plan(_, _, _, _, _)
Plan(messages, mi, subscribers, size, has_context) ==
    IF mi > Len(messages)
    THEN <<>>
    ELSE LET order == SendOrder(subscribers, size, has_context)
             this == IF messages[mi] = ""
                     THEN <<>>
                     ELSE [k \in 1..Len(order) |-> [mi |-> mi, sub |-> order[k]]]
         IN  this \o Plan(messages, mi + 1, subscribers, size, has_context)

\* `subscriber_id in subscriber_sessions` and the stored token is not empty
HasSessionKeyOnly(sessions, u) == u \in DOMAIN sessions

HasSession(sessions, u) == u \in DOMAIN sessions /\ sessions[u] # ""

\* run the loops from plan position `from` up to the next await of
\* StarTools.send_message: subscribers without a session context are passed over
RECURSIVE Advance(_, _, _, _)
Advance(plan, from, log, sessions) ==
    IF from > Len(plan) \/ HasSession(sessions, plan[from].sub)
    THEN [idx |-> from, log |-> log]
    ELSE Advance(plan, from + 1,
                 Append(log, [mi |-> plan[from].mi, sub |-> plan[from].sub,
                              res |-> "skipped"]),
                 sessions)

\* `if not subscribers`: nobody is subscribed, the check is skipped
NoSubscribersNever(subscribers) == FALSE

NoSubscribers(subscribers) == subscribers = <<>>

\* the except/continue around one subscriber's send: whether send_message
\* returned or raised, the loops go on with the next position
NextPositionAbort(plan, idx, ok) == IF ok THEN idx + 1 ELSE Len(plan) + 1

NextPosition(plan, idx, ok) == idx + 1

\* an execution: where it stands, the subscribers it read, what check_updates()
\* returned (kind, success, messages) and the sends it has made
IdleExec == [pc |-> "idle", subscribers |-> <<>>, kind |-> "none", success |-> FALSE,
             messages |-> <<>>, idx |-> 0, log |-> <<>>]

\* (the variant that reads the subscriptions again at every step: whoever has
\* subscribed since the execution started is appended to its recipients)
ExecPlanWithNewcomers(e) ==
    LET Newcomer(u) == /\ subscriptions[u] # {}
                       /\ \A i \in 1..Len(e.subscribers) : e.subscribers[i] # u
    IN  Plan(e.messages, 1, e.subscribers \o SelectSeq(SubscriberOrder, Newcomer),
             batch_size, context)

\* the sends of execution e, planned from the subscribers it read when it started
ExecPlan(e) == Plan(e.messages, 1, e.subscribers, batch_size, context)

InFlight == {j \in JobIds : exec[j].pc # "idle"}

\* the <<site, message>> pairs that the sends of execution e have delivered
Delivered(jid, e) ==
    {<<JobSite(jid), e.messages[e.log[i].mi]>> :
        i \in {k \in 1..Len(e.log) : e.log[k].res = "sent"}}

\* check_site_updates returns: the execution of job jid is over
Finish(jid, outcome, e) ==
    /\ exec' = [exec EXCEPT ![jid] = IdleExec]
    /\ notified' = notified \cup Delivered(jid, e)
    /\ last_call' = [op |-> "check_done", job |-> jid, outcome |-> outcome,
                     subscribers |-> e.subscribers, kind |-> e.kind,
                     success |-> e.success, messages |-> e.messages, log |-> e.log]

\* the fan-out of execution e goes on from plan position `from`
Continue(jid, e, from, op) ==
    LET plan == ExecPlan(e)
        a == Advance(plan, from, e.log, subscriber_sessions)
        e2 == [e EXCEPT !.pc = "sending", !.idx = a.idx, !.log = a.log]
    IN  IF a.idx > Len(plan)
        THEN Finish(jid, "sent", e2)
        ELSE /\ exec' = [exec EXCEPT ![jid] = e2]
             /\ notified' = notified
             /\ last_call' = [op |-> op, job |-> jid, outcome |-> "sending"]

\* the scheduler calls check_site_updates for the run of job jid that was due at
\* run_time.  A job whose previous run has not returned is skipped (add_job leaves
\* max_instances at 1); otherwise check_site_updates runs up to its await of
\* check_updates()
RunJob(jid, run_time) ==
    LET site_name == JobSite(jid)
        subscribers == get_subscribers(subscriptions, site_name)
        call(outcome) == [op |-> "trigger", job |-> jid, outcome |-> outcome,
                          run_time |-> run_time]
    IN  IF exec[jid].pc # "idle"
        THEN /\ last_call' = call("dropped")
             /\ UNCHANGED exec
        ELSE IF site_name \notin DOMAIN site_configs
        THEN /\ last_call' = call("unregistered")
             /\ UNCHANGED exec
        ELSE IF NoSubscribers(subscribers)
        THEN /\ last_call' = call("no_subscribers")
             /\ UNCHANGED exec
        ELSE /\ Cardinality(InFlight) < MaxInFlight
             /\ exec' = [exec EXCEPT ![jid] =
                            [IdleExec EXCEPT !.pc = "checking",
                                             !.subscribers = subscribers]]
             /\ last_call' = call("started")

\* the scheduler fires job jid, at whatever time its trigger makes it due
Trigger(jid) ==
    /\ running
    /\ jid \in jobs
    /\ RunJob(jid, Never)
    /\ UNCHANGED <<cacheVars, site_configs, display_name_to_site_name, scheduler_jobs,
                   jobs, job_store, running, context, batch_size, subVars, dedupVars,
                   notified>>

\* _process_jobs at the time `now` for job jid, which is due: its latest due run is
\* made unless it is late by more than the grace time, and the job's next run time
\* is computed from that run
ProcessJobs(jid) ==
    /\ running
    /\ jid \in jobs
    /\ next_run_time(job_store[jid]) # Never
    /\ next_run_time(job_store[jid]) <= now
    /\ LET run_time == latest_run_time(job_store[jid], now)
       IN  /\ IF now - run_time > MisfireGraceTime
              THEN /\ last_call' = [op |-> "trigger", job |-> jid, outcome |-> "missed",
                                    run_time |-> run_time]
                   /\ UNCHANGED exec
              ELSE RunJob(jid, run_time)
           /\ job_store' = [job_store EXCEPT ![jid].previous_fire_time = run_time]
    /\ UNCHANGED <<cacheVars, site_configs, display_name_to_site_name, scheduler_jobs,
                   jobs, running, context, batch_size, subVars, dedupVars, notified>>

\* what `await site_config.check_updates()` yields
Raises == [kind |-> "raise", success |-> FALSE, messages |-> <<>>]
Invalid == [kind |-> "invalid", success |-> FALSE, messages |-> <<>>]
Result(success, messages) == [kind |-> "dict", success |-> success, messages |-> messages]

\* (the variant without the test of `success`)
OutcomeIgnoresSuccess(result) ==
    IF result.kind = "raise" THEN "exception"
    ELSE IF result.kind = "invalid" THEN "invalid"
    ELSE IF result.messages = <<>> THEN "no_messages"
    ELSE "send"

\* how check_site_updates goes on with what check_updates() yielded
Outcome(result) ==
    IF result.kind = "raise" THEN "exception"
    ELSE IF result.kind = "invalid" THEN "invalid"
    ELSE IF ~result.success THEN "failed"
    ELSE IF result.messages = <<>> THEN "no_messages"
    ELSE "send"

\* (the variant whose handler unschedules the site)
on_failure_unschedules(st, site_name) ==
    [st EXCEPT !.jobs = {j \in @ : JobSite(j) # site_name},
               !.scheduler_jobs = DictDel(@, site_name)]

\* the except handlers and error returns of check_site_updates and
\* _send_notifications log and do nothing else
on_failure(st, site_name) == st

\* check_updates() returns to the execution of job jid, which goes on up to its
\* first await of send_message or to its end
CheckReturns(jid, result) ==
    /\ exec[jid].pc = "checking"
    /\ LET e == [exec[jid] EXCEPT !.kind = result.kind, !.success = result.success,
                                  !.messages = result.messages]
           outcome == Outcome(result)
       IN  IF outcome = "send"
           THEN Continue(jid, e, 1, "check_returned") /\ SetSchedState(SchedState)
           ELSE IF outcome = "no_messages"
           THEN Finish(jid, outcome, e) /\ SetSchedState(SchedState)
           ELSE Finish(jid, outcome, e)
                /\ SetSchedState(on_failure(SchedState, JobSite(jid)))
    /\ UNCHANGED <<cacheVars, running, context, batch_size, subVars, dedupVars>>

\* the awaited send_message returns (ok) or raises (~ok); the loops go on
SendReturns(jid, ok) ==
    /\ exec[jid].pc = "sending"
    /\ LET e == exec[jid]
           p == ExecPlan(e)[e.idx]
           logged == [e EXCEPT !.log = Append(@, [mi |-> p.mi, sub |-> p.sub,
                                                   res |-> IF ok THEN "sent" ELSE "failed"])]
       IN  Continue(jid, logged, NextPosition(ExecPlan(e), e.idx, ok), "send_returned")
    /\ SetSchedState(IF ok THEN SchedState ELSE on_failure(SchedState, JobSite(jid)))
    /\ UNCHANGED <<cacheVars, running, context, batch_size, subVars, dedupVars>>

(***************************************************************************)
(* Scheduler: the registration actions                                     *)
(***************************************************************************)
StartSiteScheduling(site_name, sch) ==
    /\ LET r == start_site_scheduling(SchedState, running, site_name, sch)
       IN  /\ SetSchedState(r.st)
           /\ last_call' = [op |-> "start_site_scheduling", site |-> site_name,
                            form |-> sch.form, outcome |-> r.outcome,
                            replaced |-> r.replaced]
    /\ UNCHANGED <<cacheVars, running, context, batch_size, exec, subVars, dedupVars, notified>>

\* one call of _load_site_module
LoadSiteModule(site_name, source, mod) ==
    /\ LET r == _load_site_module(SchedState, running, site_name, source, mod)
       IN  /\ SetSchedState(r.st)
           /\ last_call' = [op |-> "_load_site_module", site |-> site_name,
                            source |-> source, mod |-> mod, ok |-> r.ok]
    /\ UNCHANGED <<cacheVars, running, context, batch_size, exec, subVars, dedupVars, notified>>

LoadSiteModules(plugin_dir, custom_dir) ==
    /\ LET r == load_site_modules(SchedState, running, plugin_dir, custom_dir)
       IN  /\ SetSchedState(r.st)
           /\ last_call' = [op |-> "load_site_modules", loaded |-> r.loaded]
    /\ UNCHANGED <<cacheVars, running, context, batch_size, exec, subVars, dedupVars, notified>>

\* (the variant that does not shut the scheduler down)
cancel_all_tasks_no_shutdown(st, is_running) ==
    [st |-> [st EXCEPT
                !.scheduler_jobs = EmptyDict,
                !.jobs = @ \ {st.scheduler_jobs[s] : s \in DOMAIN st.scheduler_jobs}],
     running |-> is_running]

\* cancel_all_tasks(): remove every recorded job, clear scheduler_jobs, and shut a
\* running scheduler down, which empties its job store
cancel_all_tasks(st, is_running) ==
    [st |-> [st EXCEPT
                !.scheduler_jobs = EmptyDict,
                !.jobs = IF is_running
                         THEN {}
                         ELSE @ \ {st.scheduler_jobs[s] : s \in DOMAIN st.scheduler_jobs}],
     running |-> FALSE]

\* cancel_all_tasks().  Whether the executor's shutdown cancels the runs in flight
\* depends on the APScheduler release installed.
CancelAllTasks(cancels_runs) ==
    /\ SetSchedState(cancel_all_tasks(SchedState, running).st)
    /\ running' = cancel_all_tasks(SchedState, running).running
    /\ exec' = IF running /\ cancels_runs THEN [j \in JobIds |-> IdleExec] ELSE exec
    /\ notified' = IF running /\ cancels_runs
                   THEN notified \cup UNION {Delivered(j, exec[j]) : j \in JobIds}
                   ELSE notified
    /\ last_call' = [op |-> "cancel_all_tasks", was_running |-> running]
    /\ UNCHANGED <<cacheVars, context, batch_size, subVars, dedupVars>>

(***************************************************************************)
(* SpiderPlugin: the subscription commands (main.py)                       *)
(***************************************************************************)
\* self.display_name_to_site_name.get(display_name, display_name)
get_site_name_by_display_name(table, display_name) ==
    IF display_name \in DOMAIN table THEN table[display_name] ELSE display_name

\* handle_subscribe(event, site_name) by a sender allowed to use it
HandleSubscribe(u, site_name, session_context) ==
    Subscribe(u, get_site_name_by_display_name(display_name_to_site_name, site_name),
              session_context)

\* (the variant that passes the all-sites name, as handle_unsubscribe_all does)
HandleUnsubscribePassesAll(u, site_name) == Unsubscribe(u, AllSitesName)

\* handle_unsubscribe(event, site_name)
HandleUnsubscribe(u, site_name) ==
    Unsubscribe(u, get_site_name_by_display_name(display_name_to_site_name, site_name))

\* handle_subscribe_all(event)
HandleSubscribeAll(u, session_context) == Subscribe(u, AllSitesName, session_context)

\* handle_unsubscribe_all(event)
HandleUnsubscribeAll(u) == Unsubscribe(u, AllSitesName)

(***************************************************************************)
(* Specifications                                                          *)
(***************************************************************************)
\* the state after `scheduler_instance = Scheduler()` and SpiderPlugin.__init__
\* up to its call of load_site_modules
SchedInit(sizes) ==
    /\ site_configs = EmptyDict
    /\ display_name_to_site_name = EmptyDict
    /\ scheduler_jobs = EmptyDict
    /\ jobs = {}
    /\ job_store = EmptyDict
    /\ running = TRUE
    /\ context = TRUE
    /\ batch_size \in sizes
    /\ exec = [j \in JobIds |-> IdleExec]
    /\ notified = {}
    /\ last_call = [op |-> "init"]

\* subscription_manager.initialize(): nothing stored, or a stored subscription
\* whose session context is missing (unsubscribing it leaves nothing stored)
NoSubscriptions ==
    /\ subscriptions = [u \in Subscribers |-> {}]
    /\ subscriber_sessions = EmptyDict

StoredSubscription ==
    /\ subscriptions = [u \in Subscribers |-> IF u = "u2" THEN {"a"} ELSE {}]
    /\ subscriber_sessions = EmptyDict

\* the lists of at most MaxMsgs messages "X" in which at most one entry is empty
MessageLists ==
    {[i \in 1..n |-> IF i = p THEN "" ELSE "X"] : n \in 0..MaxMsgs, p \in 0..MaxMsgs}

\* -------- Spec: registration, triggers and overlapping executions --------
\* directory contents: a dict from the site directories present to their modules
Dir1(s1, m1) == [s \in {s1} |-> m1]
Dir2(m1, m2) == [s \in {"a", "b"} |-> IF s = "a" THEN m1 ELSE m2]
Works(sch) == Module(TRUE, sch)
Broken == Module(FALSE, IntervalTen)
PluginDirs == {Dir2(Works(IntervalTen), Works(CronEveryMinute)),
               Dir2(Broken, Works(IntervalTen)),
               Dir1("a", Works(CronEveryMinute))}
CustomDirs == {EmptyDict, Dir1("a", Works(CronEveryMinute)), Dir1("a", Broken),
               Dir1("b", Works(IntervalAbc))}
\* the <<plugin directory, custom directory>> pairs the plugin is started with
Layouts == {<<Dir2(Works(IntervalTen), Works(CronEveryMinute)), EmptyDict>>,
            <<Dir2(Broken, Works(IntervalTen)), Dir1("a", Works(CronEveryMinute))>>,
            <<Dir1("a", Works(CronEveryMinute)), Dir1("a", Broken)>>,
            <<Dir2(Works(IntervalTen), Works(CronEveryMinute)), Dir1("b", Works(IntervalAbc))>>}
\* here check_updates() fails or finds nothing new; FanoutSpec covers the rest
MainResults == {Raises, Result(FALSE, <<"X">>), Result(TRUE, <<>>)}

Init == SchedInit({DefaultBatchSize}) /\ NoSubscriptions /\ DedupInit /\ CacheInit

Next ==
    \/ \E l \in Layouts : LoadSiteModules(l[1], l[2])
    \/ \E s \in Sites, sch \in Schedules : StartSiteScheduling(s, sch)
    \/ \E b \in BOOLEAN : CancelAllTasks(b)
    \/ \E j \in JobIds : Trigger(j)
    \/ \E j \in JobIds, r \in MainResults : CheckReturns(j, r)
    \/ Subscribe("u1", "all", "ctx")
    \/ Unsubscribe("u1", "all")

Spec == Init /\ [][Next]_vars

\* -------- FanoutSpec: one site, the fan-out in full --------
BatchSizes == {0 - 1, 0, 1, DefaultBatchSize}
FanoutResults == {Raises, Invalid, Result(FALSE, <<"X">>)}
                 \cup {Result(TRUE, m) : m \in MessageLists}

FanoutInit ==
    SchedInit(BatchSizes) /\ StoredSubscription /\ DedupInit /\ CacheInit

FanoutNext ==
    \/ LoadSiteModules([s \in {"a"} |-> Module(TRUE, IntervalTen)], EmptyDict)
    \/ Trigger(JobId("a", "interval"))
    \/ \E r \in FanoutResults : CheckReturns(JobId("a", "interval"), r)
    \/ \E ok \in BOOLEAN : SendReturns(JobId("a", "interval"), ok)
    \/ \E u \in Subscribers : Subscribe(u, "a", "ctx")
    \/ Subscribe("u1", "a", "")
    \/ \E u \in Subscribers : Unsubscribe(u, "a")

FanoutSpec == FanoutInit /\ [][FanoutNext]_vars

\* -------- ExecSpec: two sites, failing checks and sends, cancellation --------
ExecResults == {Raises, Invalid, Result(FALSE, <<"X">>), Result(TRUE, <<>>),
                Result(TRUE, <<"X">>)}

ExecNext ==
    \/ LoadSiteModules(Dir2(Works(IntervalTen), Works(CronEveryMinute)), EmptyDict)
    \/ \E s \in Sites : StartSiteScheduling(s, IntervalAbc)
    \/ \E b \in BOOLEAN : CancelAllTasks(b)
    \/ \E j \in JobIds : Trigger(j)
    \/ \E j \in JobIds, r \in ExecResults : CheckReturns(j, r)
    \/ \E j \in JobIds, ok \in BOOLEAN : SendReturns(j, ok)
    \/ Subscribe("u1", "all", "ctx")
    \/ Subscribe("u2", "a", "ctx")
    \/ Unsubscribe("u1", "all")

ExecSpec == Init /\ [][ExecNext]_vars

\* -------- HangSpec: executions under the scheduler's timer --------
\* The timer keeps firing every job the scheduler holds.  Nothing makes an awaited
\* check_updates() or send_message() return: the code awaits them without a
\* timeout, so their return is left to the site and to the transport.
HangNext ==
    \/ LoadSiteModules(Dir2(Works(IntervalTen), Works(CronEveryMinute)), EmptyDict)
    \/ \E j \in JobIds : Trigger(j)
    \/ \E j \in JobIds, r \in ExecResults : CheckReturns(j, r)
    \/ \E j \in JobIds, ok \in BOOLEAN : SendReturns(j, ok)
    \/ Subscribe("u1", "all", "ctx")
    \/ Subscribe("u2", "a", "ctx")
    \/ Unsubscribe("u1", "all")

HangSpec == Init /\ [][HangNext]_vars /\ \A j \in JobIds : WF_vars(Trigger(j))

\* -------- TimerSpec: jobs under the wall clock --------
\* "0 8 2 * 0": day of month and day of week both restricted
CronSecondOrSunday == Cron(<<Num(0), Num(8), Num(2), Star, Num(0)>>)
\* the times the clock is read at: around the first runs of a 10 second interval,
\* and 08:00 on each day of the first week
TimerInstants == {10, 11, 20, 30} \cup {d * Day + 8 * Hour : d \in 1..6}
TimerSchedules == {IntervalTen, CronMonday, CronSecondOrSunday}

TimerNext ==
    \/ \E s \in Sites, sch \in TimerSchedules : LoadSiteModule(s, "plugin", Works(sch))
    \/ \E j \in JobIds : ProcessJobs(j)
    \/ \E t \in TimerInstants : Tick(t)

TimerSpec == Init /\ [][TimerNext]_vars

\* -------- RegSpec: the registration of site modules --------
TemplateModule == SiteConfigModule(TemplateKwargs, CronHourly)
ExampleModule == SiteConfigModule(ExampleKwargs, CronEveryMinute)
\* `site` objects on which one required attribute is missing or is a plain value
DefectiveSites ==
    {[DuckSite EXCEPT ![attr] = v] :
        attr \in required_attrs, v \in {"missing", "value"}} \ {DuckSite}
RegModules ==
    {Works(sch) : sch \in Schedules \cup {IntervalZero, CronMonday}}
    \cup {ModuleWith(TRUE, site_obj, IntervalTen, "own") : site_obj \in DefectiveSites}
    \cup {TemplateModule, ExampleModule, Broken}

RegNext ==
    \/ \E s \in Sites, m \in RegModules : LoadSiteModule(s, "plugin", m)
    \/ \E p \in PluginDirs, c \in CustomDirs : LoadSiteModules(p, c)
    \/ \E j \in JobIds : Trigger(j)

RegSpec == Init /\ [][RegNext]_vars

\* -------- CommandSpec: display names and the subscription commands --------
\* a site whose display_name() returns the name main.py uses for "all sites"
NamedAll == ModuleWith(TRUE, DuckSite, IntervalTen, AllSitesName)
\* the names a user may type after the command
TypedNames == {"A", "B", "a", "all", AllSitesName}

CommandNext ==
    \/ \E s \in Sites, m \in {Works(IntervalTen), NamedAll} : LoadSiteModule(s, "plugin", m)
    \/ \E d \in TypedNames : HandleSubscribe("u1", d, "ctx")
    \/ \E d \in TypedNames : HandleUnsubscribe("u1", d)
    \/ HandleSubscribeAll("u1", "ctx")
    \/ HandleUnsubscribeAll("u1")

CommandSpec == Init /\ [][CommandNext]_vars

\* ---- the cache of the sites: saves and loads of a few values ----
\* the data of the example site, a list, a tuple, a dict with an int key, a dict
\* holding the key 1 and the key "1", and a value json.dump rejects
ExampleData == PyDict(<<<<PyStr("update_count"), PyInt("1")>>,
                        <<PyStr("title"), PyStr("Example Update #1")>>>>)
Blobs == {ExampleData,
          PyStr("x"),
          PyList(<<PyInt("1"), PyStr("x")>>),
          PyTuple(<<PyInt("1"), PyStr("x")>>),
          PyDict(<<<<PyInt("1"), PyStr("x")>>>>),
          PyDict(<<<<PyInt("1"), PyStr("x")>>, <<PyStr("1"), PyStr("y")>>>>),
          PySet}
CacheNext ==
    \/ \E s \in Sites, data \in Blobs, io \in {"ok", "open_fails", "write_fails"} :
            SaveCache(s, data, io)
    \/ \E s \in Sites, read_ok \in BOOLEAN : LoadCache(s, read_ok)

CacheSpec == Init /\ [][CacheNext]_vars

\* -------- DedupSpec: the deduplication store on its own --------
\* the (message, site) pairs the store is called with
DedupCalls == {<<"X", "a">>, <<"Y", "a">>, <<"X", "b">>}
DedupNext ==
    \/ \E c \in DedupCalls : IsDuplicate(c[1], c[2])
    \/ \E c \in DedupCalls, w \in BOOLEAN : RecordMessage(c[1], c[2], w)
    \/ \E t \in Instants : Tick(t)

DedupSpec == Init /\ [][DedupNext]_vars

\* -------- StorageSpec: the stores with writes that fail --------
StorageNext ==
    \/ \E c \in DedupCalls : IsDuplicate(c[1], c[2])
    \/ \E c \in DedupCalls, w \in BOOLEAN : RecordMessage(c[1], c[2], w)
    \/ \E t \in Instants : Tick(t)
    \/ \E io \in {"ok", "open_fails", "write_fails"} : SaveCache("a", ExampleData, io)

StorageSpec == Init /\ [][StorageNext]_vars

\* -------- RestartSpec: the deduplication store across restarts --------
RestartNext ==
    \/ \E c \in DedupCalls : IsDuplicate(c[1], c[2])
    \/ \E c \in DedupCalls : RecordMessage(c[1], c[2], TRUE)
    \/ \E t \in Instants : Tick(t)
    \/ \E r, w \in BOOLEAN : LoadSentMessages(r, w)

RestartSpec == Init /\ [][RestartNext]_vars

\* -------- ScenarioSpec: the example site from registration to delivery --------
\* check_example_updates returns success with one to three non-empty messages
ExampleResults == {Result(TRUE, <<"X">>), Result(TRUE, <<"X", "X">>)}
\* sites/example/main.py as it is, and a module with schedule "interval:10" that loads
ScenarioModules == {ExampleModule, Works(IntervalTen)}

ScenarioInit ==
    SchedInit(BatchSizes) /\ NoSubscriptions /\ DedupInit /\ CacheInit

ScenarioNext ==
    \/ \E m \in ScenarioModules : LoadSiteModule("a", "plugin", m)
    \/ Trigger(JobId("a", "interval"))
    \/ \E r \in ExampleResults : CheckReturns(JobId("a", "interval"), r)
    \/ \E ok \in BOOLEAN : SendReturns(JobId("a", "interval"), ok)
    \/ Subscribe("u2", "a", "ctx")
    \/ Subscribe("u1", "all", "ctx")

ScenarioSpec == ScenarioInit /\ [][ScenarioNext]_vars

\* -------- DeliverySpec: concurrent deliveries of one message --------
DeliveryNext ==
    \/ \E d \in Deliveries, s \in Sites : DeliverCheck(d, "X", s)
    \/ \E d \in Deliveries, w \in BOOLEAN : DeliverRecord(d, w)
    \/ \E t \in Instants : Tick(t)

DeliverySpec == Init /\ [][DeliveryNext]_vars

(***************************************************************************)
(* Properties                                                              *)
(***************************************************************************)
\* the executions of check_site_updates(site_name) that have not returned
Running(site_name) == {j \in InFlight : JobSite(j) = site_name}

\* the jobs the scheduler holds for a site
LiveJobs(js, site_name) == {j \in js : JobSite(j) = site_name}

\* the (message, subscriber) of a log entry
Position(entry) == [mi |-> entry.mi, sub |-> entry.sub]

\* the entries of a log that are calls of send_message
Attempts(log) == SelectSeq(log, LAMBDA entry : entry.res # "skipped")

\* the elements of a sequence
Elems(seq) == {seq[i] : i \in 1..Len(seq)}

\* C1: at most one execution of check_site_updates(site) is in flight per site at
\* any time; a firing that finds the previous run unfinished is dropped.
C1_OneExecutionPerSite == \A s \in Sites : Cardinality(Running(s)) <= 1

\* C2: the scheduler holds at most one job per site id, and a call of
\* start_site_scheduling that schedules a site leaves exactly the new job for it,
\* also when the schedule changed between the interval and the cron form.
C2_AtMostOneJob == \A s \in Sites : Cardinality(LiveJobs(jobs, s)) <= 1

C2_Replaces ==
    (last_call'.op = "start_site_scheduling" /\ last_call'.outcome = "scheduled")
        => LiveJobs(jobs', last_call'.site) = {JobId(last_call'.site, last_call'.form)}

C2_OneJobPerSite == [](C2_AtMostOneJob) /\ [][C2_Replaces]_vars

\* C2 witness: a site scheduled in the interval form has been scheduled again in
\* the cron form, and its old job was removed
C2_Witness ==
    /\ last_call.op = "start_site_scheduling"
    /\ last_call.outcome = "scheduled"
    /\ last_call.form = "cron"
    /\ last_call.replaced = {JobId(last_call.site, "interval")}
    /\ LiveJobs(jobs, last_call.site) = {JobId(last_call.site, "cron")}

\* C3: a message that an earlier check of the site has sent (within the last 7
\* days: the clock stands still here) is not sent again by a later check.
C3_NoResend ==
    \A j \in JobIds :
        exec[j].pc = "sending" =>
            LET m == exec[j].messages[ExecPlan(exec[j])[exec[j].idx].mi]
            IN  <<JobSite(j), m>> \notin notified

\* C4: of two concurrent deliveries of the same message for the same site, at most
\* one observes "not a duplicate".
C4_OneObservesNew ==
    \A d1, d2 \in Deliveries :
        (/\ d1 # d2
         /\ dlv[d1].pc = "checked" /\ dlv[d2].pc = "checked"
         /\ dlv[d1].site = dlv[d2].site /\ dlv[d1].message = dlv[d2].message
         /\ dlv[d1].at - dlv[d2].at < SevenDays
         /\ dlv[d2].at - dlv[d1].at < SevenDays)
            => (dlv[d1].dup \/ dlv[d2].dup)

\* C5: is_duplicate(m, s) is true exactly when record_message(m, s) was called and
\* the latest call is at most 604800 seconds old.
C5_Window ==
    \A s \in Sites, m \in Texts :
        is_dup(sent_messages, m, s, now)
            <=> (last_record[<<s, m>>] # Never /\ now - last_record[<<s, m>>] <= SevenDays)

\* C6: dedup is per site: a message never recorded for site B is no duplicate for
\* B whatever was recorded for other sites, and a call for one site leaves the
\* records of every other site as they were.
C6_NotRecordedNotDuplicate ==
    \A s \in Sites, m \in Texts :
        last_record[<<s, m>>] = Never => ~is_dup(sent_messages, m, s, now)

C6_OtherSitesUnchanged ==
    \A b \in Sites :
        (\/ (b \in DOMAIN sent_messages') # (b \in DOMAIN sent_messages)
         \/ (b \in DOMAIN sent_messages /\ sent_messages'[b] # sent_messages[b]))
            => (last_call'.op \in {"is_duplicate", "record_message"} /\ last_call'.site = b)

C6_PerSite == [](C6_NotRecordedNotDuplicate) /\ [][C6_OtherSitesUnchanged]_vars

\* C6 witness: X is a duplicate for site a, and is_duplicate("X", "b") has just
\* returned False
C6_Witness ==
    /\ last_call.op = "is_duplicate"
    /\ last_call.site = "b" /\ last_call.message = "X"
    /\ ~last_call.ret
    /\ is_dup(sent_messages, "X", "a", now)

\* C7: a trigger for a site without subscribers does not call check_updates() and
\* sends nothing: the execution is over at once.
C7_Skip ==
    \A j \in JobIds :
        (exec[j].pc = "idle" /\ get_subscribers(subscriptions, JobSite(j)) = <<>>)
            => exec'[j].pc = "idle"

C7_NoSubscribersNoCheck == [][C7_Skip]_vars

\* C7 witness: the job of a registered site has fired while nobody was subscribed
C7_Witness ==
    /\ last_call.op = "trigger"
    /\ last_call.outcome = "no_subscribers"
    /\ JobSite(last_call.job) \in DOMAIN site_configs
    /\ get_subscribers(subscriptions, JobSite(last_call.job)) = <<>>

\* C8: within one check the messages are fanned out in the order returned: every
\* send of an earlier message comes before any send of a later one.
InOrder(attempts) ==
    \A i, k \in 1..Len(attempts) : i < k => attempts[i].mi <= attempts[k].mi

C8_MessageOrder ==
    /\ \A j \in JobIds :
          /\ InOrder(Attempts(exec[j].log))
          /\ exec[j].pc = "sending" =>
                \A i \in 1..Len(exec[j].log) :
                    exec[j].log[i].mi <= ExecPlan(exec[j])[exec[j].idx].mi
    /\ last_call.op = "check_done" => InOrder(Attempts(last_call.log))

\* C8 witness: a check has fanned out two messages to two subscribers each
C8_Witness ==
    /\ last_call.op = "check_done"
    /\ Len(Attempts(last_call.log)) = 4
    /\ \E i, k \in 1..4 :
          Attempts(last_call.log)[i].mi = 1 /\ Attempts(last_call.log)[k].mi = 2

\* every (non-empty message, subscriber) pair of a finished check
Pairs(call) ==
    {[mi |-> i, sub |-> u] : i \in {k \in 1..Len(call.messages) : call.messages[k] # ""},
                             u \in Elems(call.subscribers)}

\* C9: a send that raises for one subscriber does not stop the fan-out: every
\* other subscriber of the batch and of the later batches, and every later
\* message, is still reached.
C9_FailureIsolated ==
    (last_call.op = "check_done"
     /\ \E i \in 1..Len(last_call.log) : last_call.log[i].res = "failed")
        => Pairs(last_call) = {Position(entry) : entry \in Elems(last_call.log)}

\* C9 witness: the first send failed, and the subscriber of the next batch and the
\* next message were sent to all the same
C9_Witness ==
    /\ last_call.op = "check_done"
    /\ batch_size = 1
    /\ Len(last_call.log) = 4
    /\ last_call.log[1].res = "failed"
    /\ \A i \in 2..4 : last_call.log[i].res = "sent"

\* C10: a subscriber that is not in subscriber_sessions, or is mapped to an empty
\* token, gets no send call, and passing over it does not keep the others from
\* being sent to.
C10_StartsSend(j) ==
    /\ exec'[j].pc = "sending"
    /\ exec[j].pc # "sending" \/ exec'[j].idx # exec[j].idx

C10_OnlyWithSession ==
    \A j \in JobIds :
        C10_StartsSend(j) =>
            LET u == ExecPlan(exec'[j])[exec'[j].idx].sub
            IN  u \in DOMAIN subscriber_sessions /\ subscriber_sessions[u] # ""

C10_SkipGoesOn ==
    (last_call.op = "check_done"
     /\ \E i \in 1..Len(last_call.log) : last_call.log[i].res = "skipped")
        => Pairs(last_call) = {Position(entry) : entry \in Elems(last_call.log)}

C10_NoSessionNoSend == [](C10_SkipGoesOn) /\ [][C10_OnlyWithSession]_vars

\* C10 witness: a subscriber without a session context was passed over and the
\* subscriber after it was sent to
C10_Witness ==
    /\ last_call.op = "check_done"
    /\ \E i, k \in 1..Len(last_call.log) :
          /\ i < k
          /\ last_call.log[i].res = "skipped"
          /\ last_call.log[k].res = "sent"
          /\ last_call.log[i].mi = last_call.log[k].mi

\* C11: when check_updates() returns success=false, no message of that result is
\* sent, the execution ends without calling check_updates() again, and the site's
\* job stays scheduled.
C11_NothingSent ==
    /\ \A j \in JobIds : exec[j].pc = "sending" => exec[j].success
    /\ (last_call.op = "check_done" /\ last_call.kind = "dict" /\ ~last_call.success)
          => (last_call.outcome = "failed" /\ last_call.log = <<>>)

C11_NoRetryJobStays ==
    (/\ last_call'.op = "check_done"
     /\ last_call'.kind = "dict" /\ ~last_call'.success
     /\ exec[last_call'.job].pc = "checking")
        => /\ exec'[last_call'.job].pc = "idle"
           /\ notified' = notified
           /\ jobs' = jobs
           /\ scheduler_jobs' = scheduler_jobs

C11_FailedCheck == [](C11_NothingSent) /\ [][C11_NoRetryJobStays]_vars

\* C11 witness: a check that had subscribers returned success=false with a
\* message; nothing was sent and the job is still scheduled on a running scheduler
C11_Witness ==
    /\ last_call.op = "check_done"
    /\ last_call.outcome = "failed"
    /\ last_call.messages = <<"X">>
    /\ last_call.subscribers # <<>>
    /\ last_call.log = <<>>
    /\ last_call.job \in jobs
    /\ running

\* C12: a failure inside one site's execution (check_updates() raising or
\* returning a malformed result, a send raising) stays inside it: the scheduler
\* keeps running, every site keeps its registration and its job, and the
\* executions of other sites are not touched.
C12_StepIsolated ==
    (last_call'.op \in {"check_done", "check_returned", "send_returned"})
        => /\ running' = running
           /\ site_configs' = site_configs
           /\ scheduler_jobs' = scheduler_jobs
           /\ jobs' = jobs
           /\ \A k \in JobIds \ {last_call'.job} : exec'[k] = exec[k]

C12_FailureContained == [][C12_StepIsolated]_vars

\* C12 witness: check_updates() of one site raised while the check of the other
\* site was in flight; both sites still have their jobs
C12_Witness ==
    /\ last_call.op = "check_done"
    /\ last_call.outcome = "exception"
    /\ running
    /\ \A s \in Sites : s \in DOMAIN site_configs /\ Cardinality(LiveJobs(jobs, s)) = 1
    /\ \E k \in JobIds : JobSite(k) # JobSite(last_call.job) /\ exec[k].pc = "checking"

\* C13: every execution of check_site_updates eventually completes, also when the
\* awaited check_updates() or send_message() never returns (a timeout ends the
\* wait), so that later triggers of the site can run.
C13_Completes == \A j \in JobIds : (exec[j].pc # "idle") ~> (exec[j].pc = "idle")

\* the schedule strings of the documented grammar: "interval:<positive integer>"
\* or five cron fields within their ranges
ValidSchedule(sch) ==
    \/ sch.form = "interval" /\ sch.isint /\ sch.n > 0
    \/ sch.form = "cron" /\ Len(sch.fields) = 5 /\ CronTriggerOk(sch.fields)

\* a schedule string outside the grammar
Malformed(sch) == sch.form \in {"interval", "cron"} /\ ~ValidSchedule(sch)

\* the step is a call of _load_site_module for a module whose site object is complete
LoadsComplete ==
    /\ last_call'.op = "_load_site_module"
    /\ last_call'.mod.loads
    /\ last_call'.mod.site = DuckSite

\* C14: a site with a malformed schedule string is registered but has no job,
\* also when it had a valid job before; and registering it again with a valid
\* schedule gives it its job.
C14_Dormant ==
    (LoadsComplete /\ Malformed(last_call'.mod.schedule))
        => /\ last_call'.site \in DOMAIN site_configs'
           /\ LiveJobs(jobs', last_call'.site) = {}

C14_Recovers ==
    (LoadsComplete /\ ValidSchedule(last_call'.mod.schedule))
        => /\ last_call'.site \in DOMAIN site_configs'
           /\ LiveJobs(jobs', last_call'.site) =
                  {JobId(last_call'.site, last_call'.mod.schedule.form)}

C14_MalformedSchedule == [][C14_Dormant]_vars /\ [][C14_Recovers]_vars

\* C15: a site object that lacks a required capability, or has it as something
\* that is not callable, is rejected: the call adds nothing to site_configs and
\* creates no job.
C15_Step ==
    (/\ last_call'.op = "_load_site_module"
     /\ last_call'.mod.loads
     /\ last_call'.mod.site \in DefectiveSites)
        => /\ ~last_call'.ok
           /\ site_configs' = site_configs
           /\ jobs' = jobs

C15_RejectsDefective == [][C15_Step]_vars

\* C16: a module that constructs its site as the template does,
\* SiteConfig(name=, check_updates_func=, description_func=, schedule_func=,
\* display_name_func=), is loaded: registered in site_configs with a job.
C16_Step ==
    (/\ last_call'.op = "_load_site_module"
     /\ last_call'.mod \in {TemplateModule, ExampleModule})
        => /\ last_call'.ok
           /\ last_call'.site \in DOMAIN site_configs'
           /\ LiveJobs(jobs', last_call'.site) = {JobId(last_call'.site, "cron")}

C16_TemplateLoads == [][C16_Step]_vars

\* whether _load_site_module gets as far as registering the module's site
Registers(mod) ==
    /\ mod.loads
    /\ \A attr \in required_attrs : mod.site[attr] # "missing"

\* C17: after load_site_modules has found a site in both directories, the custom
\* definition is the registered one, and the site has no job other than the one
\* created for the custom definition: whatever became of the custom load, no job
\* of the plugin definition is left.
C17_Post(plugin_dir, custom_dir) ==
    \A s \in (DOMAIN plugin_dir) \cap (DOMAIN custom_dir) :
        /\ Registers(custom_dir[s])
              => (s \in DOMAIN site_configs' /\ site_configs'[s] = "custom")
        /\ LiveJobs(jobs', s) \subseteq
              (IF Registers(custom_dir[s]) /\ ValidSchedule(custom_dir[s].schedule)
               THEN {JobId(s, custom_dir[s].schedule.form)}
               ELSE {})

C17_Step ==
    \A plugin_dir \in PluginDirs, custom_dir \in CustomDirs :
        LoadSiteModules(plugin_dir, custom_dir) => C17_Post(plugin_dir, custom_dir)

C17_OverrideWins == [][C17_Step]_vars

\* C18: in every registry state the display name of "all sites" is looked up as
\* the id "all", and the subscribe-all and unsubscribe-all commands add and
\* remove exactly the id "all".
C18_Lookup ==
    get_site_name_by_display_name(display_name_to_site_name, AllSitesName) = "all"

C18_Commands ==
    \A u \in Subscribers :
        /\ HandleSubscribeAll(u, "ctx") => subscriptions'[u] = subscriptions[u] \cup {"all"}
        /\ HandleUnsubscribeAll(u) => subscriptions'[u] = subscriptions[u] \ {"all"}

C18_SentinelIsAll == [](C18_Lookup) /\ [][C18_Commands]_vars

\* C19: cancel_all_tasks leaves the scheduler without any job and stopped, so
\* that no execution of check_site_updates starts afterwards; a second call
\* changes nothing.
C19_AfterCancel ==
    last_call.op = "cancel_all_tasks"
        => (jobs = {} /\ scheduler_jobs = EmptyDict /\ ~running)

C19_NoNewExecution ==
    ~running => /\ ~running'
                /\ \A j \in JobIds : exec[j].pc = "idle" => exec'[j].pc = "idle"

C19_SecondCallNoChange ==
    (last_call.op = "cancel_all_tasks" /\ last_call'.op = "cancel_all_tasks")
        => /\ schedVars' = schedVars
           /\ subVars' = subVars
           /\ notified' = notified

C19_Shutdown ==
    /\ [](C19_AfterCancel)
    /\ [][C19_NoNewExecution]_vars
    /\ [][C19_SecondCallNoChange]_vars

\* C19 witness: cancel_all_tasks was called on the scheduler it had stopped
\* before, with both sites registered and their jobs gone
C19_Witness ==
    /\ last_call.op = "cancel_all_tasks"
    /\ ~last_call.was_running
    /\ DOMAIN site_configs = Sites
    /\ jobs = {}

\* C20: when the job of a site is removed (cancel_all_tasks, or a registration
\* that leaves the site without job) while its check_updates() is awaited, the
\* execution is left alone, and when check_updates() returns nothing is sent.
C20_NotInterrupted ==
    \A j \in JobIds :
        (/\ exec[j].pc = "checking"
         /\ last_call'.op \in {"cancel_all_tasks", "start_site_scheduling"})
            => exec'[j] = exec[j]

C20_Discarded ==
    \A j \in JobIds :
        (exec[j].pc = "checking" /\ j \notin jobs) => exec'[j].pc # "sending"

C20_CancelledInFlight == [][C20_NotInterrupted]_vars /\ [][C20_Discarded]_vars

\* C21: load_cache(site) returns a value equal to the data of the latest
\* save_cache(site, data) that returned True; it returns None for a site never
\* saved; and a save for one site leaves what load returns for the others.
C21_RoundTrip ==
    \A s \in DOMAIN cache_saved :
        cache_saved[s].ret =>
            StructurallyEqual(load_cache(cache_files, s, TRUE), cache_saved[s].data)

C21_NeverSaved ==
    \A s \in Sites \ DOMAIN cache_saved : load_cache(cache_files, s, TRUE).t = "absent"

C21_OtherSites ==
    \A s \in Sites :
        (last_call'.op = "save_cache" /\ last_call'.site # s)
            => load_cache(cache_files', s, TRUE) = load_cache(cache_files, s, TRUE)

C21_CacheRoundTrip ==
    /\ [](C21_RoundTrip /\ C21_NeverSaved)
    /\ [][C21_OtherSites]_vars

\* C22: a write that fails is reported as a false return, and memory stays
\* authoritative: save_cache returns False, and record_message whose write of the
\* file fails returns a false value while the record is kept in memory.
C22_SaveCacheFalse ==
    (last_call'.op = "save_cache" /\ last_call'.io # "ok") => ~last_call'.ret

C22_RecordReports ==
    (last_call'.op = "record_message" /\ ~last_call'.written)
        => /\ last_call'.ret = "False"
           /\ is_dup(sent_messages', last_call'.message, last_call'.site, now')

C22_StorageFailure == [][C22_SaveCacheFalse]_vars /\ [][C22_RecordReports]_vars

\* C23: load_sent_messages leaves in memory exactly the records of the file that
\* are at most 7 days old, with their timestamps.
C23_Kept(doc, sm, current_time) ==
    /\ \A s \in DOMAIN doc : \A h \in DOMAIN doc[s] :
            (current_time - doc[s][h] <= SevenDays)
                => (s \in DOMAIN sm /\ h \in DOMAIN sm[s] /\ sm[s][h] = doc[s][h])
    /\ \A s \in DOMAIN sm : \A h \in DOMAIN sm[s] :
            /\ s \in DOMAIN doc /\ h \in DOMAIN doc[s]
            /\ current_time - doc[s][h] <= SevenDays

C23_Step ==
    (last_call'.op = "load_sent_messages" /\ last_call'.read_ok /\ data_file.exists)
        => C23_Kept(data_file.doc, sent_messages', now)

C23_LoadKeepsRecent == [][C23_Step]_vars

\* C24: the job of an "interval:<n>" schedule fires first at the time of its
\* registration, and after a firing its next firing is n seconds later.
C24_FirstAtRegistration ==
    \A j \in DOMAIN job_store :
        (job_store[j].trigger.kind = "interval" /\ job_store[j].previous_fire_time = Never)
            => next_run_time(job_store[j]) = job_store[j].added_at

C24_ThenEveryN ==
    \A j \in DOMAIN job_store :
        (job_store[j].trigger.kind = "interval" /\ job_store[j].previous_fire_time # Never)
            => next_run_time(job_store[j])
                   = job_store[j].previous_fire_time + job_store[j].trigger.interval

C24_IntervalFirings == [](C24_FirstAtRegistration /\ C24_ThenEveryN)

\* the day of week of a day of the horizon in cron's numbering: Sunday is 0
CronWeekday(d) == (4 + d) % 7

\* the day rule of cron: day of month or day of week when both are restricted, and
\* both (one of them accepting every day) otherwise; 7 is Sunday as well
StandardCronDay(fields, d) ==
    LET dom == FieldMatches(fields[3], 1 + d)
        dow == fields[5].star \/ fields[5].v % 7 = CronWeekday(d)
    IN  /\ FieldMatches(fields[4], 1)
        /\ IF ~fields[3].star /\ ~fields[5].star THEN dom \/ dow ELSE dom /\ dow

\* C25: the job of a 5-field cron schedule is next due at the first minute boundary
\* that matches minute, hour and month and cron's day rule, counted from its
\* registration or from its previous firing.
C25_NextIsStandard ==
    \A j \in DOMAIN job_store :
        job_store[j].trigger.kind = "cron"
            => LET job == job_store[j]
                   start == IF job.previous_fire_time = Never
                            THEN job.added_at
                            ELSE job.previous_fire_time + 1
               IN  next_run_time(job)
                       = NextBoundary(job.trigger.fields,
                                      LAMBDA d : StandardCronDay(job.trigger.fields, d),
                                      start)

C25_CronFirings == []C25_NextIsStandard

\* C26: a subscriber holding "all" is listed by get_subscribers(S) exactly once
\* for every site S, whether or not S is registered and whether or not the
\* subscriber holds S as well; the subscribe-all command makes its sender such a
\* subscriber, and after subscribing to site a and then to all sites the
\* subscriber holds exactly {a, all}.
C26_HolderListedOnce ==
    \A u \in Subscribers : \A s \in Sites :
        "all" \in subscriptions[u]
            => LET listed == get_subscribers(subscriptions, s)
               IN  Cardinality({i \in 1..Len(listed) : listed[i] = u}) = 1

C26_SubscribeAll ==
    \A u \in Subscribers :
        HandleSubscribeAll(u, "ctx")
            => /\ \A s \in Sites : u \in Elems(get_subscribers(subscriptions', s))
               /\ subscriptions[u] = {"a"} => subscriptions'[u] = {"a", "all"}

C26_Wildcard == [](C26_HolderListedOnce) /\ [][C26_SubscribeAll]_vars

\* C27: the unsubscribe command for a name whose site id the sender does not hold
\* reports failure and leaves every subscription set and every session context as
\* it was; a sender holding "all" is still listed for every site afterwards.
C27_Step ==
    \A u \in Subscribers, d \in TypedNames :
        LET x == IF d \in DOMAIN display_name_to_site_name
                 THEN display_name_to_site_name[d]
                 ELSE d
        IN  (HandleUnsubscribe(u, d) /\ x \notin subscriptions[u])
                => /\ ~last_call'.ret
                   /\ subscriptions' = subscriptions
                   /\ subscriber_sessions' = subscriber_sessions
                   /\ "all" \in subscriptions[u]
                        => \A s \in Sites : u \in Elems(get_subscribers(subscriptions', s))

Reached(call, mi) ==
    LET entries == SelectSeq(call.log, LAMBDA entry : entry.mi = mi)
    IN  [i \in 1..Len(entries) |-> entries[i].sub]

C29_NoMessages ==
    (last_call.op = "check_done" /\ last_call.kind = "dict" /\ last_call.success
     /\ last_call.messages = <<>>)
        => last_call.outcome = "no_messages" /\ last_call.log = <<>>

C29_EmptySkipped ==
    (last_call.op = "check_done" /\ last_call.outcome = "sent")
        => \A mi \in 1..Len(last_call.messages) :
               Reached(last_call, mi)
                   = IF last_call.messages[mi] = ""
                     THEN <<>>
                     ELSE SendOrder(last_call.subscribers, batch_size, context)

C29_Invalid ==
    (last_call.op = "check_done" /\ last_call.kind = "invalid")
        => last_call.outcome = "invalid" /\ last_call.log = <<>>

C29_ZeroAndEmpty == C29_NoMessages /\ C29_EmptySkipped /\ C29_Invalid

\* C29 witness: the first entry of the result was empty and the message after it
\* was sent
C29_Witness ==
    /\ last_call.op = "check_done"
    /\ last_call.messages = <<"", "X">>
    /\ \E i \in 1..Len(last_call.log) :
          last_call.log[i].mi = 2 /\ last_call.log[i].res = "sent"

\* C30: the example site is registered once its module has been loaded, and a
\* successful check with non-empty messages gets a send attempt of each of them
\* to every subscriber of the site, explicit or through "all", who has a session
\* context: the first trigger of the example site reaches all its subscribers.
C30_ExampleRegistered ==
    (last_call.op = "_load_site_module" /\ last_call.mod = ExampleModule)
        => last_call.site \in DOMAIN site_configs /\ LiveJobs(jobs, last_call.site) # {}

C30_EachSubscriber ==
    (last_call.op = "check_done" /\ last_call.outcome = "sent")
        => \A mi \in 1..Len(last_call.messages) :
               last_call.messages[mi] # ""
                   => \A u \in Elems(last_call.subscribers) :
                          \E i \in 1..Len(last_call.log) :
                              /\ last_call.log[i].mi = mi
                              /\ last_call.log[i].sub = u
                              /\ last_call.log[i].res # "skipped"

C30_EndToEnd == C30_ExampleRegistered /\ C30_EachSubscriber

\* C31: in every reachable state every entry of scheduler_jobs names a job the
\* scheduler holds, every job the scheduler holds belongs to a site of
\* site_configs, and every target of display_name_to_site_name is a key of
\* site_configs.
C31_EntriesLive ==
    \A s \in DOMAIN scheduler_jobs : scheduler_jobs[s] \in jobs

C31_JobsRegistered ==
    \A j \in jobs : JobSite(j) \in DOMAIN site_configs

C31_NamesRegistered ==
    \A d \in DOMAIN display_name_to_site_name :
        display_name_to_site_name[d] \in DOMAIN site_configs

C31_RegistryConsistent ==
    C31_EntriesLive /\ C31_JobsRegistered /\ C31_NamesRegistered

\* C32: a _load_site_module call that returns False leaves site_configs,
\* display_name_to_site_name and scheduler_jobs as they were, and a site is in
\* the list load_site_modules returns only if a call for it returned True.
C32_FailedLoadFrame ==
    (last_call'.op = "_load_site_module" /\ ~last_call'.ok)
        => /\ site_configs' = site_configs
           /\ display_name_to_site_name' = display_name_to_site_name
           /\ scheduler_jobs' = scheduler_jobs

C32_Returns(site_name, source, mod) ==
    _load_site_module(SchedState, running, site_name, source, mod).ok

C32_NotCounted ==
    \A p \in PluginDirs, c \in CustomDirs :
        LoadSiteModules(p, c)
            => \A s \in last_call'.loaded :
                   \/ s \in DOMAIN p /\ C32_Returns(s, "plugin", p[s])
                   \/ s \in DOMAIN c /\ C32_Returns(s, "custom", c[s])

C32_AllOrNothing == [][C32_FailedLoadFrame]_vars /\ [][C32_NotCounted]_vars

\* C33: the recipients of an execution are the subscribers get_subscribers
\* returned when it started: every send attempt of the execution goes to one of
\* them, whatever subscribe and unsubscribe calls run while it is in flight.
C33_LogAfter(j) ==
    IF exec'[j].pc # "idle" THEN exec'[j].log
    ELSE IF last_call'.op = "check_done" /\ last_call'.job = j THEN last_call'.log
    ELSE exec[j].log

C33_Step ==
    \A j \in JobIds :
        /\ (exec[j].pc = "idle" /\ exec'[j].pc # "idle")
               => exec'[j].subscribers = get_subscribers(subscriptions, JobSite(j))
        /\ (exec[j].pc # "idle" /\ exec'[j].pc # "idle")
               => exec'[j].subscribers = exec[j].subscribers
        /\ exec[j].pc # "idle"
               => \A i \in (Len(exec[j].log) + 1)..Len(C33_LogAfter(j)) :
                      C33_LogAfter(j)[i].sub \in Elems(exec[j].subscribers)

====
